---------------------------- MODULE Spec2Model ----------------------------
(***************************************************************************)
(* Model of the chat relay of my-chat-server: the socket.io handlers       *)
(* (join, send_message, update_status, typing, disconnect) and the REST    *)
(* handlers that touch the message store, as written in                    *)
(* src/unnamed/part_002 (the latest revision; src/server.js lines 57-132   *)
(* is the previous revision of the same handlers).                         *)
(*                                                                         *)
(* Every handler is an async function.  It runs to its first `await` in    *)
(* the step that delivers the event, and each later step resumes it when   *)
(* the awaited store call has been answered.  The answer of a store call   *)
(* is modelled at the moment the store applies it.  Handlers of different  *)
(* events interleave at these points only (one JavaScript thread).         *)
(*                                                                         *)
(* `await io.fetchSockets()` on the in-memory adapter resolves with a list *)
(* built synchronously inside the call, and the continuation runs in the   *)
(* microtask queue before any other event is delivered, so a step does not *)
(* end there.                                                              *)
(***************************************************************************)
EXTENDS Integers, Sequences, FiniteSets, Bags, TLC

None == "none"

\* connection ids, in the order the transport assigns them
Conns == {1, 2}
\* the two accounts the application is written for (part_002:111)
Users == {"user1", "user2"}
Rooms == {"r1", "r2"}
\* client-generated document ids and message bodies
DocIds == {"m1", "m2"}
Texts == {"hi", "yo"}
\* roomId: { type: String, default: "room1" }, data.roomId || 'room1'
DefaultRoom == "room1"
RoomOr(r) == IF r = None THEN DefaultRoom ELSE r
\* the documents of rooms/{roomId}/messages/{docId} in the legacy store
MirrorKeys == (Rooms \cup {DefaultRoom}) \X DocIds
\* the connection that sends and the room it sends to in the message pipeline
Senders == {1}
MsgRooms == {"r1"}

\* bounds on the number of join events and on the number of message
\* operations (send_message, update_status, edit, clear) of a run
MaxJoins == 2
MaxOps == 2

VARIABLES
    sockets,   \* io.sockets: the connected sockets of the namespace
    closed,    \* sockets that have disconnected (ids are not reused)
    userId,    \* socket.userId / socket.data.userId
    sids,      \* adapter.sids: the rooms of each socket
    users,     \* the User collection: userId -> {isOnline, lastSeen}, if stored
    messages,  \* the Message collection, in insertion order
    firestore, \* rooms/{roomId}/messages/{docId} of the legacy store
    tokens,    \* fcm_tokens/{userId}: whether a token is registered
    now,       \* Date.now()
    procs,     \* bag of the handler invocations, in flight or ended
    events,    \* bag of the events emitted so far
    lastPresence, \* the latest presence_update broadcast about each user
    count,     \* number of events of each kind delivered so far
    cache,     \* the files of THUMB_DIR, by name
    downloads  \* bag of the originals downloaded from the bucket

vars == <<sockets, closed, userId, sids, users, messages, firestore, tokens,
          now, procs, events, lastPresence, count, cache, downloads>>

\* the sockets and their rooms; the stores of the message pipeline
netVars == <<sockets, closed, userId, sids>>
msgVars == <<messages, firestore, tokens>>

\* the thumbnail cache on disk and the traffic to the bucket
diskVars == <<cache, downloads>>

----------------------------------------------------------------------------
\* A handler invocation: the event's payload (user is senderId for a
\* send_message), the place the handler has reached, for a send_message its
\* number in the order of arrival (n), for an edit the text it read (orig),
\* and for a disconnect the other connected sockets of the same user at the
\* time of the disconnect.
NoProc ==
    [kind |-> None, conn |-> 0, user |-> None, room |-> None, doc |-> None,
     text |-> None, status |-> None, orig |-> None, n |-> 0, pc |-> None,
     peers |-> {}, file |-> << >>, size |-> 0]

JoinProc(c, u, r) ==
    [NoProc EXCEPT !.kind = "join", !.conn = c, !.user = u, !.room = r,
                   !.pc = "awaitUser"]

DisconnectProc(c, pc, peers) ==
    [NoProc EXCEPT !.kind = "disconnect", !.conn = c, !.user = userId[c],
                   !.pc = pc, !.peers = peers]

\* socket.on('send_message', async (data) => ...)
SendProc(c, u, r, d, t, n) ==
    [NoProc EXCEPT !.kind = "send", !.conn = c, !.user = u, !.room = r,
                   !.doc = d, !.text = t, !.n = n, !.pc = "awaitSave"]

\* socket.on('update_status', async ({ docId, status, roomId }) => ...)
StatusProc(d, st, r) ==
    [NoProc EXCEPT !.kind = "update_status", !.doc = d, !.status = st,
                   !.room = r, !.pc = "awaitUpdate"]

\* app.post("/api/messages/edit"), { docId, newText, roomId }
EditProc(d, t, r) ==
    [NoProc EXCEPT !.kind = "edit", !.doc = d, !.text = t, !.room = r,
                   !.pc = "awaitFind"]

\* app.delete("/api/messages/clear"), { roomId }
ClearProc(r) == [NoProc EXCEPT !.kind = "clear", !.room = r, !.pc = "awaitDelete"]

\* new Message(data): the fields of the schema the handlers read or write;
\* status takes the schema's default
Msg(p) ==
    [docId |-> p.doc, text |-> p.text, senderId |-> p.user,
     roomId |-> RoomOr(p.room),
     status |-> "sent", seen |-> FALSE, edited |-> FALSE, originalText |-> None]

\* a document of the legacy store, and the absence of one
NoMirror ==
    [stored |-> FALSE, text |-> None, senderId |-> None, status |-> None,
     seen |-> FALSE, edited |-> FALSE, originalText |-> None]
Mirror(p) ==
    [stored |-> TRUE, text |-> p.text, senderId |-> p.user,
     status |-> "delivered", seen |-> FALSE, edited |-> FALSE,
     originalText |-> None]

\* A record of the User collection, and the absence of one
UserDoc(online, t) == [stored |-> TRUE, isOnline |-> online, lastSeen |-> t]
NoUser == [stored |-> FALSE, isOnline |-> FALSE, lastSeen |-> 0]

\* An emitted event: its payload, the sockets it is sent to (to), the call
\* that sent it (via: "room" for socket.to(room).emit and io.to(room).emit,
\* "socket" for socket.emit, "all" for io.emit) and the socket whose
\* handler sent it (by).
NoEvent ==
    [type |-> None, user |-> None, online |-> FALSE, doc |-> None,
     text |-> None, status |-> None, room |-> None, to |-> {},
     via |-> None, by |-> 0, typing |-> FALSE]

Presence(u, online, to, via, by) ==
    [NoEvent EXCEPT !.type = "presence_update", !.user = u,
                    !.online = online, !.to = to, !.via = via, !.by = by]

\* io.to(data.roomId).emit('new_message', data)
NewMessage(p, to) ==
    [NoEvent EXCEPT !.type = "new_message", !.user = p.user, !.doc = p.doc,
                    !.text = p.text, !.room = p.room, !.to = to,
                    !.via = "room", !.by = p.conn]

\* socket.emit('message_sent', { docId, localId, status: 'sent' })
MessageSent(p, to) ==
    [NoEvent EXCEPT !.type = "message_sent", !.doc = p.doc, !.status = "sent",
                    !.to = to, !.via = "socket", !.by = p.conn]

\* io.to(roomId).emit('status_updated', { docId, status })
StatusUpdatedEvent(p, to) ==
    [NoEvent EXCEPT !.type = "status_updated", !.doc = p.doc,
                    !.status = p.status, !.to = to, !.via = "room",
                    !.by = p.conn]

\* io.to(roomId || 'room1').emit('message_edited', { docId, newText, editedAt })
MessageEdited(p, to) ==
    [NoEvent EXCEPT !.type = "message_edited", !.doc = p.doc,
                    !.text = p.text, !.to = to, !.via = "room"]

\* admin.messaging().send(payload): a push to the receiver's device
Push(p, receiver) ==
    [NoEvent EXCEPT !.type = "push", !.user = receiver, !.text = p.text,
                    !.via = "fcm", !.by = p.conn]

\* emit('partner_typing', { userId: socket.userId, isTyping })
PartnerTyping(c, r, b, to) ==
    [NoEvent EXCEPT !.type = "partner_typing", !.user = userId[c],
                    !.typing = b, !.room = r, !.to = to, !.via = "room",
                    !.by = c]

\* socket.emit reaches the socket only while it is connected
ToSocket(c) == IF c \in sockets THEN {c} ELSE {}

\* io.in(roomId).fetchSockets()
RoomSockets(r) == {s \in sockets : r \in sids[s]}

\* a lookup that reads a property the fetched sockets do not carry
OnlineUsersUnset(r, u) ==
    {s \in RoomSockets(r) : None # None /\ userId[s] # u}

\* sockets.map(s => s.data.userId).filter(id => id && id !== userId),
\* kept as the sockets that contribute an entry
OnlineUsers(r, u) ==
    {s \in RoomSockets(r) : userId[s] # None /\ userId[s] # u}

\* onlineUsers.forEach(partnerId => socket.emit('presence_update', ...))
Replies(c, S) ==
    LET ev(s) == Presence(userId[s], TRUE, ToSocket(c), "socket", c)
    IN  [e \in {ev(s) : s \in S} |-> Cardinality({s \in S : ev(s) = e})]

\* an announcement made only for the user's first connection
AnnounceFirstOnly(p) ==
    IF \E s \in sockets \ {p.conn} : userId[s] = p.user
    THEN EmptyBag
    ELSE SetToBag({Presence(p.user, TRUE, RoomSockets(p.room) \ {p.conn},
                            "room", p.conn)})

\* socket.to(roomId).emit('presence_update', { userId, isOnline: true })
Announce(p) ==
    SetToBag({Presence(p.user, TRUE, RoomSockets(p.room) \ {p.conn},
                       "room", p.conn)})

\* the filter with its id test turned around
RemainingSelf(c, left) == {s \in left : userId[s] = userId[c] /\ s = c}

\* sockets.filter(s => s.data.userId === socket.userId && s.id !== socket.id)
\* over the sockets left in the namespace
Remaining(c, left) == {s \in left : userId[s] = userId[c] /\ s # c}

\* a join that replaces the socket's rooms
JoinRoomOnly(c, r) == {r}

\* socket.join(roomId): adds the room to the socket's rooms
JoinRoom(c, r) == sids[c] \cup {r}

\* the handlers, in flight or ended
Procs == BagToSet(procs)

\* a handler starts; handler p resumes and goes on to pc
Start(p) == procs (+) SetToBag({p})
Move(p, pc) == (procs (-) SetToBag({p})) (+) SetToBag({[p EXCEPT !.pc = pc]})


----------------------------------------------------------------------------
\* The message stores

\* Message.findOne({ docId })
HasDoc(d) == \E i \in DOMAIN messages : messages[i].docId = d
FirstDoc(d) ==
    CHOOSE i \in DOMAIN messages :
        /\ messages[i].docId = d
        /\ \A j \in DOMAIN messages : messages[j].docId = d => i <= j

\* a collection without the unique index
NoUniqueIndex(d) == TRUE

\* docId: { type: String, required: true, unique: true }: an insert passes
\* the index when no stored document has the docId
UniqueIndexAllows(d) == ~HasDoc(d)

\* the validation of save(): docId is the only required path
Validates(p) == p.doc # None

\* a handler that goes on without inserting
NotSaved(p) == messages

\* newMsg.save()
Saved(p) == Append(messages, Msg(p))

\* a handler that does not update the stored message
UpdateNone(d, fields) == messages

\* Message.findOneAndUpdate({ docId }, fields): the first match, if any,
\* takes the given fields and keeps its others
Merge(m, fields) ==
    [f \in DOMAIN m |-> IF f \in DOMAIN fields THEN fields[f] ELSE m[f]]
UpdateOne(d, fields) ==
    IF HasDoc(d)
    THEN [messages EXCEPT ![FirstDoc(d)] = Merge(@, fields)]
    ELSE messages

\* GET /api/messages?roomId: Message.find({ roomId: roomId || "room1" }),
\* the documents of the answer (fewer than the limit of 30)
History(r) ==
    {messages[i] : i \in {j \in DOMAIN messages :
                              messages[j].roomId = RoomOr(r)}}

\* Message.deleteMany({ roomId })
Without(r) == SelectSeq(messages, LAMBDA m : m.roomId # r)

\* a handler that broadcasts with socket.to: not to the submitting socket
BroadcastToOthers(p) ==
    SetToBag({NewMessage(p, RoomSockets(p.room) \ {p.conn})})

\* io.to(data.roomId).emit('new_message', data): to the sockets in the room
Broadcast(p) == SetToBag({NewMessage(p, RoomSockets(p.room))})

\* a handler that sends no acknowledgment
AcknowledgeNever(p) == EmptyBag

\* socket.emit('message_sent', ...): to the submitting socket
Acknowledge(p) == SetToBag({MessageSent(p, ToSocket(p.conn))})

\* a handler without the inner try/catch: the error ends it
OnBridgeErrorRethrow(p) == "bridgeFailed"

\* catch (e) { console.error("Bridge Error:", e.message) }: the handler
\* goes on to sendFCM
OnBridgeError(p) == "awaitToken"

\* a handler that answers update_status to the requesting socket alone
StatusBroadcastNever(p) == EmptyBag

\* io.to(roomId).emit('status_updated', { docId, status })
StatusBroadcast(p) == SetToBag({StatusUpdatedEvent(p, RoomSockets(p.room))})

\* a handler that emits partner_typing with io.to: to the sender too
TypingToAll(c, r, b) == SetToBag({PartnerTyping(c, r, b, RoomSockets(r))})

\* socket.to(roomId).emit('partner_typing', ...): to the sockets in the
\* room other than this one
TypingToOthers(c, r, b) ==
    SetToBag({PartnerTyping(c, r, b, RoomSockets(r) \ {c})})

\* a handler that reports the error to the socket
OnSendErrorReport(p) == SetToBag({MessageSent(p, ToSocket(p.conn))})

\* catch (e) { console.error("Socket Save Error:", e) }: nothing is emitted
OnSendError(p) == EmptyBag

\* a catch that leaves the token record in place
TokenKept(u) == tokens

\* admin.firestore().collection("fcm_tokens").doc(receiverId).delete()
TokenDeleted(u) == [tokens EXCEPT ![u] = FALSE]

\* const receiverId = data.senderId === "user1" ? "user2" : "user1"
Receiver(u) == IF u = "user1" THEN "user2" ELSE "user1"

Statuses == {"sent", "delivered", "seen"}

----------------------------------------------------------------------------
Init ==
    /\ sockets = {}
    /\ closed = {}
    /\ userId = [c \in Conns |-> None]
    /\ sids = [c \in Conns |-> {}]
    /\ users = [u \in Users |-> NoUser]
    /\ now = 1
    /\ procs = EmptyBag
    /\ events = EmptyBag
    /\ lastPresence = [u \in Users |-> None]
    /\ count = [join |-> 0, send |-> 0, other |-> 0]
    /\ messages = << >>
    /\ firestore = [k \in MirrorKeys |-> NoMirror]
    /\ tokens = [u \in Users |-> TRUE]
    /\ cache = {}
    /\ downloads = EmptyBag

\* io.on('connection'): a new socket, no user, no room
Connect(c) ==
    /\ c \notin sockets \cup closed
    /\ \A d \in Conns : d < c => d \in sockets \cup closed
    /\ sockets' = sockets \cup {c}
    /\ UNCHANGED <<diskVars, closed, userId, sids, users, now, procs, events,
                   lastPresence, count,
                   msgVars>>

\* socket.on('join'), up to the await of User.findOneAndUpdate
Join(c, u, r) ==
    /\ c \in sockets
    /\ count.join < MaxJoins
    /\ sids' = [sids EXCEPT ![c] = JoinRoom(c, r)]
    /\ userId' = [userId EXCEPT ![c] = u]
    /\ procs' = Start(JoinProc(c, u, r))
    /\ count' = [count EXCEPT !.join = @ + 1]
    /\ UNCHANGED <<diskVars, sockets, closed, users, now, events, lastPresence,
                   msgVars>>

\* the upsert succeeded: announce to the room, then tell the joiner who is
\* already there
JoinStored(p) ==
    /\ p.kind = "join" /\ p.pc = "awaitUser"
    /\ users' = [users EXCEPT ![p.user] = UserDoc(TRUE, now)]
    /\ now' = now + 1
    /\ events' = events (+) Announce(p)
                         (+) Replies(p.conn, OnlineUsers(p.room, p.user))
    /\ lastPresence' = [lastPresence EXCEPT ![p.user] = "online"]
    /\ procs' = Move(p, "done")
    /\ UNCHANGED <<diskVars, sockets, closed, userId, sids, count,
                   msgVars>>

\* the upsert threw: catch (e) { console.error("Join Error:", e) }
JoinStoreFails(p) ==
    /\ p.kind = "join" /\ p.pc = "awaitUser"
    /\ procs' = Move(p, "failed")
    /\ UNCHANGED <<diskVars, sockets, closed, userId, sids, users, now, events,
                   lastPresence, count,
                   msgVars>>

\* the transport closes: socket.io takes the socket out of its rooms and of
\* the namespace, then runs socket.on('disconnect') up to its first store call
Disconnect(c) ==
    /\ c \in sockets
    /\ sockets' = sockets \ {c}
    /\ closed' = closed \cup {c}
    /\ sids' = [sids EXCEPT ![c] = {}]
    /\ LET peers == {s \in sockets \ {c} : userId[s] = userId[c]}
           pc == IF userId[c] = None THEN "done"
                 ELSE IF Remaining(c, sockets \ {c}) # {} THEN "kept"
                 ELSE "awaitUser"
       IN  procs' = Start(DisconnectProc(c, pc, peers))
    /\ UNCHANGED <<diskVars, userId, users, now, events, lastPresence, count,
                   msgVars>>

\* User.findOneAndUpdate({userId}, {isOnline:false, lastSeen}) answered (no
\* upsert: an absent record stays absent), then io.emit to every socket
DisconnectStored(p) ==
    /\ p.kind = "disconnect" /\ p.pc = "awaitUser"
    /\ users' = [users EXCEPT ![p.user] =
                    IF @.stored THEN UserDoc(FALSE, now) ELSE @]
    /\ now' = now + 1
    /\ events' = events
          (+) SetToBag({Presence(p.user, FALSE, sockets, "all", p.conn)})
    /\ lastPresence' = [lastPresence EXCEPT ![p.user] = "offline"]
    /\ procs' = Move(p, "done")
    /\ UNCHANGED <<diskVars, sockets, closed, userId, sids, count,
                   msgVars>>

\* the update threw: nothing catches it, the handler ends there
DisconnectStoreFails(p) ==
    /\ p.kind = "disconnect" /\ p.pc = "awaitUser"
    /\ procs' = Move(p, "failed")
    /\ UNCHANGED <<diskVars, sockets, closed, userId, sids, users, now, events,
                   lastPresence, count,
                   msgVars>>

Next ==
    \/ \E c \in Conns : Connect(c)
    \/ \E c \in Conns, u \in Users, r \in Rooms : Join(c, u, r)
    \/ \E p \in Procs : JoinStored(p)
    \/ \E p \in Procs : JoinStoreFails(p)
    \/ \E c \in Conns : Disconnect(c)
    \/ \E p \in Procs : DisconnectStored(p)
    \/ \E p \in Procs : DisconnectStoreFails(p)

Spec == Init /\ [][Next]_vars

----------------------------------------------------------------------------
\* socket.on('send_message'), up to the await of newMsg.save(); the client
\* puts its own user id in data.senderId
Send(c, u, d, t, r) ==
    /\ c \in sockets
    /\ count.send + count.other < MaxOps
    /\ procs' = Start(SendProc(c, u, r, d, t, count.send + 1))
    /\ count' = [count EXCEPT !.send = @ + 1]
    /\ UNCHANGED <<diskVars, netVars, users, msgVars, now, events, lastPresence>>

\* the insert succeeded; next await: the update to status 'delivered'
SendSaved(p) ==
    /\ p.kind = "send" /\ p.pc = "awaitSave"
    /\ Validates(p)
    /\ UniqueIndexAllows(p.doc)
    /\ messages' = Saved(p)
    /\ procs' = Move(p, "awaitStatus")
    /\ UNCHANGED <<diskVars, netVars, users, firestore, tokens, now, events,
                   lastPresence, count>>

\* the insert was rejected by the unique index on docId (E11000)
SendDuplicate(p) ==
    /\ p.kind = "send" /\ p.pc = "awaitSave"
    /\ Validates(p)
    /\ ~UniqueIndexAllows(p.doc)
    /\ events' = events (+) OnSendError(p)
    /\ procs' = Move(p, "duplicate")
    /\ UNCHANGED <<diskVars, netVars, users, msgVars, now, lastPresence, count>>

\* save() rejected the document: a required path is missing
SendInvalid(p) ==
    /\ p.kind = "send" /\ p.pc = "awaitSave"
    /\ ~Validates(p)
    /\ events' = events (+) OnSendError(p)
    /\ procs' = Move(p, "invalid")
    /\ UNCHANGED <<diskVars, netVars, users, msgVars, now, lastPresence, count>>

\* the insert failed in the store
SendSaveFails(p) ==
    /\ p.kind = "send" /\ p.pc = "awaitSave"
    /\ events' = events (+) OnSendError(p)
    /\ procs' = Move(p, "saveFailed")
    /\ UNCHANGED <<diskVars, netVars, users, msgVars, now, lastPresence, count>>

\* the status update was answered: broadcast to the room, acknowledge to the
\* sender; next await: the write to the legacy store
SendDelivered(p) ==
    /\ p.kind = "send" /\ p.pc = "awaitStatus"
    /\ messages' = UpdateOne(p.doc, [status |-> "delivered"])
    /\ events' = events (+) Broadcast(p) (+) Acknowledge(p)
    /\ procs' = Move(p, "awaitBridge")
    /\ UNCHANGED <<diskVars, netVars, users, firestore, tokens, now, lastPresence,
                   count>>

\* the status update failed in the store
SendStatusFails(p) ==
    /\ p.kind = "send" /\ p.pc = "awaitStatus"
    /\ events' = events (+) OnSendError(p)
    /\ procs' = Move(p, "statusFailed")
    /\ UNCHANGED <<diskVars, netVars, users, msgVars, now, lastPresence, count>>

\* the legacy store took the document; sendFCM starts with the token lookup
SendBridged(p) ==
    /\ p.kind = "send" /\ p.pc = "awaitBridge"
    /\ firestore' = [firestore EXCEPT ![<<RoomOr(p.room), p.doc>>] = Mirror(p)]
    /\ procs' = Move(p, "awaitToken")
    /\ UNCHANGED <<diskVars, netVars, users, messages, tokens, now, events,
                   lastPresence, count>>

\* catch (e) { console.error("Bridge Error:", e.message) }
SendBridgeFails(p) ==
    /\ p.kind = "send" /\ p.pc = "awaitBridge"
    /\ procs' = Move(p, OnBridgeError(p))
    /\ UNCHANGED <<diskVars, netVars, users, msgVars, now, events, lastPresence,
                   count>>

\* sendFCM: the receiver has a token; next await: messaging().send
SendTokenFound(p) ==
    /\ p.kind = "send" /\ p.pc = "awaitToken"
    /\ tokens[Receiver(p.user)]
    /\ procs' = Move(p, "awaitPush")
    /\ UNCHANGED <<diskVars, netVars, users, msgVars, now, events, lastPresence,
                   count>>

\* sendFCM: if (!tokenDoc.exists || !tokenDoc.data().token) return
SendNoToken(p) ==
    /\ p.kind = "send" /\ p.pc = "awaitToken"
    /\ ~tokens[Receiver(p.user)]
    /\ procs' = Move(p, "done")
    /\ UNCHANGED <<diskVars, netVars, users, msgVars, now, events, lastPresence,
                   count>>

\* sendFCM: the token lookup threw; its catch finds no token error code
SendTokenFails(p) ==
    /\ p.kind = "send" /\ p.pc = "awaitToken"
    /\ procs' = Move(p, "done")
    /\ UNCHANGED <<diskVars, netVars, users, msgVars, now, events, lastPresence,
                   count>>

\* sendFCM: the push was accepted
SendPushed(p) ==
    /\ p.kind = "send" /\ p.pc = "awaitPush"
    /\ events' = events (+) SetToBag({Push(p, Receiver(p.user))})
    /\ procs' = Move(p, "done")
    /\ UNCHANGED <<diskVars, netVars, users, msgVars, now, lastPresence, count>>

\* sendFCM: the push failed with another error code
SendPushFails(p) ==
    /\ p.kind = "send" /\ p.pc = "awaitPush"
    /\ procs' = Move(p, "done")
    /\ UNCHANGED <<diskVars, netVars, users, msgVars, now, events, lastPresence,
                   count>>

\* sendFCM: the push failed with an invalid or unregistered token code;
\* next await: the delete of the token
SendPushInvalid(p) ==
    /\ p.kind = "send" /\ p.pc = "awaitPush"
    /\ procs' = Move(p, "awaitDelete")
    /\ UNCHANGED <<diskVars, netVars, users, msgVars, now, events, lastPresence,
                   count>>

\* sendFCM: the token was deleted
SendTokenDeleted(p) ==
    /\ p.kind = "send" /\ p.pc = "awaitDelete"
    /\ tokens' = TokenDeleted(Receiver(p.user))
    /\ procs' = Move(p, "done")
    /\ UNCHANGED <<diskVars, netVars, users, messages, firestore, now, events,
                   lastPresence, count>>

\* sendFCM: the delete threw inside the catch; the handler's catch logs it
SendTokenDeleteFails(p) ==
    /\ p.kind = "send" /\ p.pc = "awaitDelete"
    /\ events' = events (+) OnSendError(p)
    /\ procs' = Move(p, "notifyFailed")
    /\ UNCHANGED <<diskVars, netVars, users, msgVars, now, lastPresence, count>>

\* socket.on('update_status'), up to the await of Message.findOneAndUpdate
UpdateStatus(c, d, st, r) ==
    /\ c \in sockets
    /\ count.send + count.other < MaxOps
    /\ procs' = Start(StatusProc(d, st, r))
    /\ count' = [count EXCEPT !.other = @ + 1]
    /\ UNCHANGED <<diskVars, netVars, users, msgVars, now, events, lastPresence>>

\* the update was answered: broadcast; next await: the legacy store
StatusUpdated(p) ==
    /\ p.kind = "update_status" /\ p.pc = "awaitUpdate"
    /\ messages' = UpdateOne(p.doc, [status |-> p.status,
                                      seen |-> (p.status = "seen")])
    /\ events' = events (+) StatusBroadcast(p)
    /\ procs' = Move(p, "awaitMirror")
    /\ UNCHANGED <<diskVars, netVars, users, firestore, tokens, now, lastPresence,
                   count>>

\* the update threw: nothing catches it, the handler ends there
StatusUpdateFails(p) ==
    /\ p.kind = "update_status" /\ p.pc = "awaitUpdate"
    /\ procs' = Move(p, "failed")
    /\ UNCHANGED <<diskVars, netVars, users, msgVars, now, events, lastPresence,
                   count>>

\* the legacy document was updated
StatusMirrored(p) ==
    /\ p.kind = "update_status" /\ p.pc = "awaitMirror"
    /\ <<p.room, p.doc>> \in MirrorKeys
    /\ firestore[<<p.room, p.doc>>].stored
    /\ firestore' = [firestore EXCEPT ![<<p.room, p.doc>>] =
                        [@ EXCEPT !.status = p.status,
                                  !.seen = (p.status = "seen")]]
    /\ procs' = Move(p, "done")
    /\ UNCHANGED <<diskVars, netVars, users, messages, tokens, now, events,
                   lastPresence, count>>

\* the legacy update threw (no such document, or the store failed): catch(e) {}
StatusMirrorFails(p) ==
    /\ p.kind = "update_status" /\ p.pc = "awaitMirror"
    /\ procs' = Move(p, "done")
    /\ UNCHANGED <<diskVars, netVars, users, msgVars, now, events, lastPresence,
                   count>>

\* an endpoint that accepts every body
EditRejectsNone(d, t) == FALSE

\* if (!docId || !newText) return res.status(400)
EditRejects(d, t) == d = None \/ t = None

\* POST /api/messages/edit: 400 without docId or newText, otherwise up to
\* Message.findOne
Edit(d, t, r) ==
    /\ count.send + count.other < MaxOps
    /\ procs' = Start([EditProc(d, t, r) EXCEPT
                          !.pc = IF EditRejects(d, t) THEN "badRequest" ELSE @])
    /\ count' = [count EXCEPT !.other = @ + 1]
    /\ UNCHANGED <<diskVars, netVars, users, msgVars, now, events, lastPresence>>

\* the message was found; next await: Message.findOneAndUpdate
EditFound(p) ==
    /\ p.kind = "edit" /\ p.pc = "awaitFind"
    /\ HasDoc(p.doc)
    /\ procs' = (procs (-) SetToBag({p}))
                 (+) SetToBag({[p EXCEPT !.pc = "awaitUpdate",
                                         !.orig = messages[FirstDoc(p.doc)].text]})
    /\ UNCHANGED <<diskVars, netVars, users, msgVars, now, events, lastPresence,
                   count>>

\* if (!msg) return res.status(404)
EditNotFound(p) ==
    /\ p.kind = "edit" /\ p.pc = "awaitFind"
    /\ ~HasDoc(p.doc)
    /\ procs' = Move(p, "notFound")
    /\ UNCHANGED <<diskVars, netVars, users, msgVars, now, events, lastPresence,
                   count>>

\* findOne or findOneAndUpdate threw: res.status(500)
EditFails(p) ==
    /\ p.kind = "edit" /\ p.pc \in {"awaitFind", "awaitUpdate"}
    /\ procs' = Move(p, "error")
    /\ UNCHANGED <<diskVars, netVars, users, msgVars, now, events, lastPresence,
                   count>>

\* the update was answered; next await: the legacy store
EditUpdated(p) ==
    /\ p.kind = "edit" /\ p.pc = "awaitUpdate"
    /\ messages' = UpdateOne(p.doc, [text |-> p.text, edited |-> TRUE,
                                      originalText |-> p.orig])
    /\ procs' = Move(p, "awaitMirror")
    /\ UNCHANGED <<diskVars, netVars, users, firestore, tokens, now, events,
                   lastPresence, count>>

\* the legacy document was updated; broadcast and answer 200
EditMirrored(p) ==
    /\ p.kind = "edit" /\ p.pc = "awaitMirror"
    /\ firestore[<<RoomOr(p.room), p.doc>>].stored
    /\ firestore' = [firestore EXCEPT ![<<RoomOr(p.room), p.doc>>] =
                        [@ EXCEPT !.text = p.text, !.edited = TRUE,
                                  !.originalText = p.orig]]
    /\ events' = events (+) SetToBag({MessageEdited(p, RoomSockets(RoomOr(p.room)))})
    /\ procs' = Move(p, "done")
    /\ UNCHANGED <<diskVars, netVars, users, messages, tokens, now, lastPresence,
                   count>>

\* the legacy update threw: catch(e) {}; broadcast and answer 200
EditMirrorFails(p) ==
    /\ p.kind = "edit" /\ p.pc = "awaitMirror"
    /\ events' = events (+) SetToBag({MessageEdited(p, RoomSockets(RoomOr(p.room)))})
    /\ procs' = Move(p, "done")
    /\ UNCHANGED <<diskVars, netVars, users, msgVars, now, lastPresence, count>>

\* DELETE /api/messages/clear, up to the await of Message.deleteMany
Clear(r) ==
    /\ count.send + count.other < MaxOps
    /\ procs' = Start(ClearProc(r))
    /\ count' = [count EXCEPT !.other = @ + 1]
    /\ UNCHANGED <<diskVars, netVars, users, msgVars, now, events, lastPresence>>

\* the messages of the room were deleted
Cleared(p) ==
    /\ p.kind = "clear" /\ p.pc = "awaitDelete"
    /\ messages' = Without(RoomOr(p.room))
    /\ procs' = Move(p, "done")
    /\ UNCHANGED <<diskVars, netVars, users, firestore, tokens, now, events,
                   lastPresence, count>>

\* deleteMany threw: res.status(500)
ClearFails(p) ==
    /\ p.kind = "clear" /\ p.pc = "awaitDelete"
    /\ procs' = Move(p, "error")
    /\ UNCHANGED <<diskVars, netVars, users, msgVars, now, events, lastPresence,
                   count>>

\* The message pipeline, started with both accounts connected and joined:
\* socket 1 is user1 in r1, socket 2 is user2 in r1 and r2.
InitMsg ==
    /\ sockets = {1, 2}
    /\ closed = {}
    /\ userId = [c \in Conns |-> IF c = 1 THEN "user1" ELSE "user2"]
    /\ sids = [c \in Conns |-> IF c = 1 THEN {"r1"} ELSE {"r1", "r2"}]
    /\ users = [u \in Users |-> UserDoc(TRUE, 0)]
    /\ now = 1
    /\ procs = EmptyBag
    /\ events = EmptyBag
    /\ lastPresence = [u \in Users |-> "online"]
    /\ count = [join |-> 0, send |-> 0, other |-> 0]
    /\ messages = << >>
    /\ firestore = [k \in MirrorKeys |-> NoMirror]
    /\ tokens = [u \in Users |-> TRUE]
    /\ cache = {}
    /\ downloads = EmptyBag

NextMsg ==
    \/ \E c \in Senders, d \in DocIds, t \in Texts, r \in MsgRooms :
          Send(c, userId[c], d, t, r)
    \/ \E p \in Procs : SendSaved(p)
    \/ \E p \in Procs : SendDuplicate(p)
    \/ \E p \in Procs : SendSaveFails(p)
    \/ \E p \in Procs : SendDelivered(p)
    \/ \E p \in Procs : SendStatusFails(p)
    \/ \E p \in Procs : SendBridged(p)
    \/ \E p \in Procs : SendBridgeFails(p)
    \/ \E p \in Procs : SendTokenFound(p)
    \/ \E p \in Procs : SendNoToken(p)
    \/ \E p \in Procs : SendTokenFails(p)
    \/ \E p \in Procs : SendPushed(p)
    \/ \E p \in Procs : SendPushFails(p)
    \/ \E p \in Procs : SendPushInvalid(p)
    \/ \E p \in Procs : SendTokenDeleted(p)
    \/ \E p \in Procs : SendTokenDeleteFails(p)
    \/ \E c \in Conns, d \in DocIds, st \in Statuses, r \in MsgRooms :
          UpdateStatus(c, d, st, r)
    \/ \E p \in Procs : StatusUpdated(p)
    \/ \E p \in Procs : StatusUpdateFails(p)
    \/ \E p \in Procs : StatusMirrored(p)
    \/ \E p \in Procs : StatusMirrorFails(p)
    \/ \E d \in DocIds, t \in Texts, r \in MsgRooms : Edit(d, t, r)
    \/ \E p \in Procs : EditFound(p)
    \/ \E p \in Procs : EditNotFound(p)
    \/ \E p \in Procs : EditFails(p)
    \/ \E p \in Procs : EditUpdated(p)
    \/ \E p \in Procs : EditMirrored(p)
    \/ \E p \in Procs : EditMirrorFails(p)
    \/ \E r \in MsgRooms : Clear(r)
    \/ \E p \in Procs : Cleared(p)
    \/ \E p \in Procs : ClearFails(p)

SpecMsg == InitMsg /\ [][NextMsg]_vars

\* Sends while the other socket joins rooms and disconnects: socket 1 is
\* user1 in r1 and stays, socket 2 is connected and has not joined.
Peers == Conns \ Senders

InitRoom ==
    /\ sockets = {1, 2}
    /\ closed = {}
    /\ userId = [c \in Conns |-> IF c \in Senders THEN "user1" ELSE None]
    /\ sids = [c \in Conns |-> IF c \in Senders THEN {"r1"} ELSE {}]
    /\ users = [u \in Users |-> IF u = "user1" THEN UserDoc(TRUE, 0) ELSE NoUser]
    /\ now = 1
    /\ procs = EmptyBag
    /\ events = EmptyBag
    /\ lastPresence = [u \in Users |-> IF u = "user1" THEN "online" ELSE None]
    /\ count = [join |-> 0, send |-> 0, other |-> 0]
    /\ messages = << >>
    /\ firestore = [k \in MirrorKeys |-> NoMirror]
    /\ tokens = [u \in Users |-> TRUE]
    /\ cache = {}
    /\ downloads = EmptyBag

\* the client generates a new docId for every submission
Fresh(d) == \A p \in Procs : p.kind = "send" => p.doc # d

\* joins and sends together stay within the bound on operations
RoomOps == count.join + count.send < MaxOps

NextRoom ==
    \/ \E c \in Peers, r \in Rooms : RoomOps /\ Join(c, "user2", r)
    \/ \E p \in Procs : JoinStored(p)
    \/ \E p \in Procs : JoinStoreFails(p)
    \/ \E c \in Peers : Disconnect(c)
    \/ \E p \in Procs : DisconnectStored(p)
    \/ \E p \in Procs : DisconnectStoreFails(p)
    \/ \E c \in Senders, d \in DocIds, r \in MsgRooms :
          RoomOps /\ Fresh(d) /\ Send(c, userId[c], d, "hi", r)
    \/ \E p \in Procs : SendSaved(p)
    \/ \E p \in Procs : SendSaveFails(p)
    \/ \E p \in Procs : SendDelivered(p)
    \/ \E p \in Procs : SendStatusFails(p)
    \/ \E p \in Procs : SendBridged(p)
    \/ \E p \in Procs : SendBridgeFails(p)
    \/ \E p \in Procs : SendTokenFound(p)
    \/ \E p \in Procs : SendNoToken(p)
    \/ \E p \in Procs : SendTokenFails(p)
    \/ \E p \in Procs : SendPushed(p)
    \/ \E p \in Procs : SendPushFails(p)
    \/ \E p \in Procs : SendPushInvalid(p)
    \/ \E p \in Procs : SendTokenDeleted(p)
    \/ \E p \in Procs : SendTokenDeleteFails(p)

SpecRoom == InitRoom /\ [][NextRoom]_vars

\* Edits of a message that was sent before: socket 1 has sent m1 "hi" to
\* r1 and its handler has ended, with the push sent.
Sent0 == [SendProc(1, "user1", "r1", "m1", "hi", 0) EXCEPT !.pc = "done"]

InitEdit ==
    /\ sockets = {1, 2}
    /\ closed = {}
    /\ userId = [c \in Conns |-> IF c = 1 THEN "user1" ELSE "user2"]
    /\ sids = [c \in Conns |-> {"r1"}]
    /\ users = [u \in Users |-> UserDoc(TRUE, 0)]
    /\ now = 1
    /\ procs = SetToBag({Sent0})
    /\ events = SetToBag({NewMessage(Sent0, {1, 2}), MessageSent(Sent0, {1}),
                          Push(Sent0, "user2")})
    /\ lastPresence = [u \in Users |-> "online"]
    /\ count = [join |-> 0, send |-> 0, other |-> 0]
    /\ messages = << [Msg(Sent0) EXCEPT !.status = "delivered"] >>
    /\ firestore = [k \in MirrorKeys |->
                       IF k = <<"r1", "m1">> THEN Mirror(Sent0) ELSE NoMirror]
    /\ tokens = [u \in Users |-> TRUE]
    /\ cache = {}
    /\ downloads = EmptyBag

NextEdit ==
    \/ \E d \in DocIds \cup {None}, t \in Texts \cup {None}, r \in MsgRooms :
          Edit(d, t, r)
    \/ \E p \in Procs : EditFound(p)
    \/ \E p \in Procs : EditNotFound(p)
    \/ \E p \in Procs : EditFails(p)
    \/ \E p \in Procs : EditUpdated(p)
    \/ \E p \in Procs : EditMirrored(p)
    \/ \E p \in Procs : EditMirrorFails(p)

SpecEdit == InitEdit /\ [][NextEdit]_vars

\* socket.on('typing', ({ roomId, isTyping }) => ...): no await
Typing(c, r, b) ==
    /\ c \in sockets
    /\ events' = events (+) TypingToOthers(c, r, b)
    /\ count' = [count EXCEPT !.other = @ + 1]
    /\ UNCHANGED <<diskVars, netVars, users, msgVars, now, procs, lastPresence>>

\* Typing while sockets join rooms and disconnect, from the state of
\* InitRoom; joins and typing events together stay within the bound on
\* operations.
TypingOps == count.join + count.other < MaxOps

NextTyping ==
    \/ \E c \in Conns, u \in Users, r \in Rooms : TypingOps /\ Join(c, u, r)
    \/ \E p \in Procs : JoinStored(p)
    \/ \E p \in Procs : JoinStoreFails(p)
    \/ \E c \in Conns : Disconnect(c)
    \/ \E p \in Procs : DisconnectStored(p)
    \/ \E p \in Procs : DisconnectStoreFails(p)
    \/ \E c \in Conns, r \in Rooms, b \in BOOLEAN :
          TypingOps /\ Typing(c, r, b)

SpecTyping == InitRoom /\ [][NextTyping]_vars

\* The presence handlers under the scheduling of the event loop: the user
\* store answers every call, with a result or with an error. Clients connect,
\* join and disconnect when they choose to.
SpecLive ==
    /\ Init /\ [][Next]_vars
    /\ WF_vars(\E p \in Procs : JoinStored(p) \/ JoinStoreFails(p))
    /\ WF_vars(\E p \in Procs : DisconnectStored(p) \/ DisconnectStoreFails(p))

\* a sender that disconnects while its send_message handlers are in flight;
\* the docId and text it submits: one docId twice, with different texts
Submissions == {<<"m1", "hi">>, <<"m1", "yo">>, <<"m2", "hi">>}

NextLeave ==
    \/ \E c \in Senders, m \in Submissions, r \in MsgRooms :
          Send(c, userId[c], m[1], m[2], r)
    \/ \E c \in Senders : Disconnect(c)
    \/ \E p \in Procs : DisconnectStored(p)
    \/ \E p \in Procs : DisconnectStoreFails(p)
    \/ \E p \in Procs : SendSaved(p)
    \/ \E p \in Procs : SendDuplicate(p)
    \/ \E p \in Procs : SendSaveFails(p)
    \/ \E p \in Procs : SendDelivered(p)
    \/ \E p \in Procs : SendStatusFails(p)
    \/ \E p \in Procs : SendBridged(p)
    \/ \E p \in Procs : SendBridgeFails(p)
    \/ \E p \in Procs : SendTokenFound(p)
    \/ \E p \in Procs : SendNoToken(p)
    \/ \E p \in Procs : SendTokenFails(p)
    \/ \E p \in Procs : SendPushed(p)
    \/ \E p \in Procs : SendPushFails(p)
    \/ \E p \in Procs : SendPushInvalid(p)
    \/ \E p \in Procs : SendTokenDeleted(p)
    \/ \E p \in Procs : SendTokenDeleteFails(p)

SpecLeave == InitMsg /\ [][NextLeave]_vars

\* a field of an event that the client may have left out
Fields(v) == {None, v}

\* join events whose roomId may be missing
NextJoinInvalid ==
    \/ \E c \in Conns : Connect(c)
    \/ \E c \in Conns, u \in Users, r \in Fields("r1") : Join(c, u, r)
    \/ \E p \in Procs : JoinStored(p)
    \/ \E p \in Procs : JoinStoreFails(p)
    \/ \E c \in Conns : Disconnect(c)
    \/ \E p \in Procs : DisconnectStored(p)
    \/ \E p \in Procs : DisconnectStoreFails(p)

SpecJoinInvalid == Init /\ [][NextJoinInvalid]_vars

\* send_message with fields of data that may be missing

NextInvalid ==
    \/ \E c \in Senders, d \in DocIds \cup {None}, r \in Fields("r1") :
          \E u \in Fields(userId[c]) : Send(c, u, d, "hi", r)
    \/ \E p \in Procs : SendInvalid(p)
    \/ \E p \in Procs : SendSaved(p)
    \/ \E p \in Procs : SendDuplicate(p)
    \/ \E p \in Procs : SendSaveFails(p)
    \/ \E p \in Procs : SendDelivered(p)
    \/ \E p \in Procs : SendStatusFails(p)
    \/ \E p \in Procs : SendBridged(p)
    \/ \E p \in Procs : SendBridgeFails(p)
    \/ \E p \in Procs : SendTokenFound(p)
    \/ \E p \in Procs : SendNoToken(p)
    \/ \E p \in Procs : SendTokenFails(p)
    \/ \E p \in Procs : SendPushed(p)
    \/ \E p \in Procs : SendPushFails(p)
    \/ \E p \in Procs : SendPushInvalid(p)
    \/ \E p \in Procs : SendTokenDeleted(p)
    \/ \E p \in Procs : SendTokenDeleteFails(p)

SpecInvalid == InitMsg /\ [][NextInvalid]_vars


----------------------------------------------------------------------------
\* GET /api/thumbnail?file=...&size=...

\* file names as sequences of characters; the empty name stands for a
\* request without the file parameter
Alnum == {"a", "b"}
Files == {<< >>, <<"a", "/", "b">>, <<"a", "_", "b">>}

\* the size parameter as parseInt reads it, 0 when it is absent, zero or not
\* a number
Sizes == {0, 40, 300}

Min(a, b) == IF a < b THEN a ELSE b
Max(a, b) == IF a > b THEN a ELSE b

\* Math.min(Math.max(parseInt(size) || 300, 50), 600)
ThumbSize(size) == Min(Max(IF size = 0 THEN 300 ELSE size, 50), 600)

\* `${file.replace(/[^a-zA-Z0-9]/g, "_")}_${thumbSize}.jpg`
CacheKey(file, thumbSize) ==
    <<[i \in DOMAIN file |-> IF file[i] \in Alnum THEN file[i] ELSE "_"],
      thumbSize>>

ThumbProc(file, thumbSize, pc) ==
    [NoProc EXCEPT !.kind = "thumbnail", !.file = file, !.size = thumbSize,
                   !.pc = pc]

\* if (fs.existsSync(cachePath))
CacheHit(p) == CacheKey(p.file, p.size) \in cache

\* the request arrives: 400 without a file, the cached file on a hit,
\* otherwise the await of downloadFromB2
Thumbnail(file, size) ==
    /\ count.other < MaxOps
    /\ LET p == ThumbProc(file, ThumbSize(size), None)
           pc == IF file = << >> THEN "badRequest"
                 ELSE IF CacheHit(p) THEN "hit"
                 ELSE "awaitDownload"
       IN  procs' = Start([p EXCEPT !.pc = pc])
    /\ count' = [count EXCEPT !.other = @ + 1]
    /\ UNCHANGED <<netVars, users, msgVars, now, events, lastPresence,
                   diskVars>>

\* downloadFromB2 returned the original; next await: sharp
ThumbDownloaded(p) ==
    /\ p.kind = "thumbnail" /\ p.pc = "awaitDownload"
    /\ downloads' = downloads (+) SetToBag({<<p.file, p.size>>})
    /\ procs' = Move(p, "awaitResize")
    /\ UNCHANGED <<netVars, users, msgVars, now, events, lastPresence,
                   count, cache>>

\* downloadFromB2 threw: 500
ThumbDownloadFails(p) ==
    /\ p.kind = "thumbnail" /\ p.pc = "awaitDownload"
    /\ procs' = Move(p, "error")
    /\ UNCHANGED <<netVars, users, msgVars, now, events, lastPresence,
                   count, diskVars>>

\* sharp returned the thumbnail: fs.writeFile is started and the thumbnail
\* is sent without waiting for it
ThumbResized(p) ==
    /\ p.kind = "thumbnail" /\ p.pc = "awaitResize"
    /\ procs' = Move(p, "awaitWrite")
    /\ UNCHANGED <<netVars, users, msgVars, now, events, lastPresence,
                   count, diskVars>>

\* sharp threw: 500
ThumbResizeFails(p) ==
    /\ p.kind = "thumbnail" /\ p.pc = "awaitResize"
    /\ procs' = Move(p, "error")
    /\ UNCHANGED <<netVars, users, msgVars, now, events, lastPresence,
                   count, diskVars>>

\* the callback of fs.writeFile without an error: the file is in the cache
ThumbWritten(p) ==
    /\ p.kind = "thumbnail" /\ p.pc = "awaitWrite"
    /\ cache' = cache \cup {CacheKey(p.file, p.size)}
    /\ procs' = Move(p, "done")
    /\ UNCHANGED <<netVars, users, msgVars, now, events, lastPresence,
                   count, downloads>>

\* the callback of fs.writeFile with an error: logged
ThumbWriteFails(p) ==
    /\ p.kind = "thumbnail" /\ p.pc = "awaitWrite"
    /\ procs' = Move(p, "notCached")
    /\ UNCHANGED <<netVars, users, msgVars, now, events, lastPresence,
                   count, diskVars>>

NextThumb ==
    \/ \E file \in Files, size \in Sizes : Thumbnail(file, size)
    \/ \E p \in Procs : ThumbDownloaded(p)
    \/ \E p \in Procs : ThumbDownloadFails(p)
    \/ \E p \in Procs : ThumbResized(p)
    \/ \E p \in Procs : ThumbResizeFails(p)
    \/ \E p \in Procs : ThumbWritten(p)
    \/ \E p \in Procs : ThumbWriteFails(p)

SpecThumb == Init /\ [][NextThumb]_vars

----------------------------------------------------------------------------
\* Reading the log and the steps

CountWhere(B, P(_)) ==
    BagCardinality([e \in {x \in DOMAIN B : P(x)} |-> B[e]])

\* presence_update{u, isOnline:true} broadcasts to a room
OnlineBroadcasts(B, u) ==
    LET P(e) == e.type = "presence_update" /\ e.user = u /\ e.online
                /\ e.via = "room"
    IN  CountWhere(B, P)

\* presence_update{u, isOnline:false} sent by the disconnect handler of c
OfflineBy(B, u, c) ==
    LET P(e) == e.type = "presence_update" /\ e.user = u /\ ~e.online
                /\ e.by = c
    IN  CountWhere(B, P)

\* presence_update{v, isOnline:true} sent to socket c alone
RepliesTo(B, v, c) ==
    LET P(e) == e.type = "presence_update" /\ e.user = v /\ e.online
                /\ e.via = "socket" /\ e.to = {c}
    IN  CountWhere(B, P)

\* this step resumes handler p and leaves it at pc
Ends(p, pc) == p \in Procs /\ p.pc # pc /\ procs' = Move(p, pc)

Bound(u) == \E s \in sockets : userId[s] = u

Quiescent ==
    \A p \in Procs : p.kind \in {"join", "disconnect"} => p.pc # "awaitUser"

----------------------------------------------------------------------------
\* C1 - smart disconnect: the step that disconnects a socket of user U while
\* another connected socket is bound to U emits nothing, writes nothing to
\* the user store and leaves no disconnect handler waiting to do so; a
\* handler that ended this way stays ended.
C1_SmartDisconnect ==
    [][/\ \A c \in sockets :
            ( /\ c \notin sockets'
              /\ userId[c] # None
              /\ \E s \in sockets \ {c} : userId[s] = userId[c] )
            => /\ events' = events
               /\ users' = users
               /\ \A p \in BagToSet(procs') :
                     (p.kind = "disconnect" /\ p.conn = c) => p.pc = "kept"
       /\ \A p \in Procs : p.pc = "kept" => BagIn(p, procs')]_vars

\* a socket has disconnected while another socket of its user was connected
C1_Witness ==
    \E p \in Procs : p.kind = "disconnect" /\ p.pc = "kept" /\ p.peers # {}

\* socket s is connected, bound to u, and its join as u has been announced
Announced(s, u) ==
    /\ s \in sockets /\ userId[s] = u
    /\ \E q \in Procs : q.kind = "join" /\ q.conn = s /\ q.user = u
                         /\ q.pc = "done"

C3_LastDisconnectAnnounced ==
    [][\A p \in Procs :
          ( /\ p.kind = "disconnect" /\ p.pc = "awaitUser" /\ p.peers = {}
            /\ users[p.user].stored
            /\ (Ends(p, "done") \/ Ends(p, "failed")) )
          => /\ OfflineBy(events', p.user, p.conn) = 1
             /\ users'[p.user] = UserDoc(FALSE, now)]_vars

NoStoreFailure == \A p \in Procs : p.pc # "failed"

\* C4 as claimed, in the runs where no store call failed: when no join or
\* disconnect handler is waiting for the store, every user a connected
\* socket is bound to is online, in the stored isOnline flag and in the
\* latest presence_update about the user.
C4_PresenceDerived ==
    (Quiescent /\ NoStoreFailure) =>
        \A u \in Users :
            Bound(u) => users[u].isOnline /\ lastPresence[u] = "online"

\* C5 - join reconciliation: the step that completes the join of connected
\* socket c to room R as U sends c one more presence_update{V, isOnline:
\* true} for every user V # U bound to another socket that is in R.
C5_JoinReconciliation ==
    [][\A p \in Procs :
          (p.kind = "join" /\ Ends(p, "done") /\ p.conn \in sockets)
          => \A s \in sockets \ {p.conn} :
                (p.room \in sids[s] /\ userId[s] \notin {None, p.user})
                => RepliesTo(events', userId[s], p.conn)
                      > RepliesTo(events, userId[s], p.conn)]_vars

\* a joiner has been told about a user who was already in the room
C5_Witness ==
    \E e \in DOMAIN events :
        /\ e.type = "presence_update" /\ e.via = "socket" /\ e.to # {}
        /\ e.user # userId[e.by]
        /\ \E s \in sockets \ {e.by} : userId[s] = e.user

----------------------------------------------------------------------------
\* the stored messages with docId d
Stored(d) == {i \in DOMAIN messages : messages[i].docId = d}

\* the pcs of a send_message handler whose write to the primary store failed
WriteFailed == {"saveFailed", "duplicate", "statusFailed"}

\* this step resumes handler p
Resumes(p) == CopiesIn(p, procs') < CopiesIn(p, procs)

C8_DocIdUnique == \A d \in DocIds : Cardinality(Stored(d)) <= 1

\* a message is stored and delivered, and another insert of its docId has
\* been answered
C8_Witness ==
    \E q \in Procs :
        /\ q.kind = "send" /\ q.pc = "duplicate"
        /\ \E i \in Stored(q.doc) : messages[i].status = "delivered"

\* C9 - a send_message whose write to the primary store fails emits
\* nothing: the step that ends it in the catch block leaves the emitted
\* events as they were, and the handler is never resumed after it.
C9_FailedWriteEmitsNothing ==
    [][\A p \in Procs :
          /\ ( /\ p.kind = "send" /\ p.pc \in {"awaitSave", "awaitStatus"}
               /\ \E pc \in WriteFailed : Ends(p, pc) )
             => events' = events
          /\ (p.kind = "send" /\ p.pc \in WriteFailed) => ~Resumes(p)]_vars

\* an insert has failed and the message is not stored
C9_Witness ==
    \E p \in Procs :
        p.kind = "send" /\ p.pc = "saveFailed" /\ Stored(p.doc) = {}

\* C10 as claimed: a send_message handler that has ended after a failed
\* write to the primary store has sent an event about the docId to the
\* submitting connection.
C10_SenderLearnsOutcome ==
    \A p \in Procs :
        (p.kind = "send" /\ p.pc \in WriteFailed)
        => \E e \in DOMAIN events :
              e.via = "socket" /\ e.to = {p.conn} /\ e.doc = p.doc

----------------------------------------------------------------------------
\* the pcs of a send_message handler that has reached sendFCM or ended
\* after it
InNotify == {"awaitToken", "awaitPush", "awaitDelete", "done", "notifyFailed"}

\* the send_message handlers in flight or ended that submitted what p did
\* and are at one of the pcs
SendsAt(p, pcs) ==
    LET P(q) == /\ q.kind = "send" /\ q.conn = p.conn /\ q.doc = p.doc
                /\ q.text = p.text /\ q.room = p.room /\ q.pc \in pcs
    IN  CountWhere(procs, P)

\* new_message events for the submission of p
Broadcasts(B, p) ==
    LET P(e) == /\ e.type = "new_message" /\ e.doc = p.doc
                /\ e.text = p.text /\ e.room = p.room /\ e.by = p.conn
    IN  CountWhere(B, P)

\* message_sent events for the submission of p that reached its socket
Acks(B, p) ==
    LET P(e) == /\ e.type = "message_sent" /\ e.doc = p.doc
                /\ e.status = "sent" /\ e.to = {p.conn}
    IN  CountWhere(B, P)

Pushes(B) == CountWhere(B, LAMBDA e : e.type = "push")

\* C11 - notification failure: every send_message that has reached sendFCM,
\* whatever sendFCM did (no token, a failed lookup or push, a failed token
\* delete), has its new_message broadcast and its message_sent
\* acknowledgment in the emitted events.
C11_NotifyFailureIsolated ==
    \A p \in Procs :
        (p.kind = "send" /\ p.pc \in InNotify)
        => /\ Broadcasts(events, p) >= SendsAt(p, InNotify)
           /\ Acks(events, p) >= SendsAt(p, InNotify)

\* a send_message has ended with no push sent, once because the token
\* delete failed
C11_Witness ==
    /\ Pushes(events) = 0
    /\ \E p \in Procs : p.kind = "send" /\ p.pc = "notifyFailed"
    /\ \E p \in Procs : p.kind = "send" /\ p.pc = "done"

\* C12 - collaborator isolation: the step that resumes a send_message
\* waiting for the legacy store, whether that write succeeded or failed,
\* leaves the primary store and the emitted events as they were and goes
\* on to sendFCM.
C12_BridgeFailureIsolated ==
    [][\A p \in Procs :
          (p.kind = "send" /\ p.pc = "awaitBridge" /\ Resumes(p))
          => /\ Ends(p, "awaitToken")
             /\ messages' = messages
             /\ events' = events]_vars

\* the only send_message has ended with its push sent, its message in the
\* primary store and none in the legacy store
C12_Witness ==
    /\ count.send = 1
    /\ \E p \in Procs :
          /\ p.kind = "send" /\ p.pc = "done"
          /\ ~firestore[<<p.room, p.doc>>].stored
          /\ Stored(p.doc) # {}
          /\ Pushes(events) = 1 /\ Acks(events, p) = 1

\* a send_message lacking its sender id, its room id or its document id
Lacking(p) == p.kind = "send" /\ None \in {p.user, p.room, p.doc}

\* C13 as claimed: while every send_message submitted lacks a required
\* field, nothing is stored in either store and nothing is emitted or
\* pushed.
C13_InvalidRejected ==
    (\A p \in Procs : Lacking(p))
    => /\ messages = << >>
       /\ \A k \in MirrorKeys : ~firestore[k].stored
       /\ events = EmptyBag

\* the send_message handlers that got past both writes to the primary store
Accepted == {"awaitBridge"} \cup InNotify

\* no update_status, edit or clear has been requested
OnlySends == \A p \in Procs : p.kind = "send"

\* C14 as claimed: after a successful send_message and nothing but sends,
\* the history of the room holds the message as submitted, with status
\* 'sent'.
C14_StoredAsSent ==
    OnlySends =>
        \A p \in Procs : p.pc \in Accepted => Msg(p) \in History(p.room)

\* C14 as amended: after a successful send_message and nothing but sends,
\* the history of the room holds the message with the submitted docId,
\* text, sender and room, and with status 'delivered'.
C14_StoredAsDelivered ==
    OnlySends =>
        \A p \in Procs :
            p.pc \in Accepted
            => [Msg(p) EXCEPT !.status = "delivered"] \in History(p.room)

\* a send_message has ended, acknowledged as 'sent', and the history of its
\* room holds its message as 'delivered'
C14_Witness ==
    /\ OnlySends
    /\ \E p \in Procs :
          /\ p.pc = "done" /\ Acks(events, p) = 1
          /\ \E m \in History(p.room) :
                m.docId = p.doc /\ m.text = p.text /\ m.status = "delivered"

\* the events this step emits
Emitted == events' (-) events

\* C15 - audience of a successful send_message: the step that emits for
\* it sends new_message to exactly the sockets that are then connected and
\* in the room, and sends one message_sent with the docId and status
\* 'sent', to the submitting socket and to no other.
C15_BroadcastAudience ==
    [][\A p \in Procs :
          (p.kind = "send" /\ p.pc = "awaitStatus" /\ Ends(p, "awaitBridge"))
          => /\ \E e \in DOMAIN Emitted :
                   /\ e.type = "new_message" /\ e.doc = p.doc
                   /\ e.to = {s \in sockets : p.room \in sids[s]}
             /\ Acks(Emitted, p) = 1
             /\ \A e \in DOMAIN Emitted :
                   e.type = "message_sent" => e.to = {p.conn}]_vars

\* a message went to both sockets, the other having joined the room, and
\* was acknowledged to the sender
C15_Witness ==
    \E e, a \in DOMAIN events :
        /\ e.type = "new_message" /\ e.to = Conns
        /\ a.type = "message_sent" /\ a.doc = e.doc /\ a.to = Senders

\* C16 as claimed: when the two sockets of user U have disconnected, the
\* first while the second was connected, and both disconnect handlers have
\* ended, exactly one presence_update{U, isOnline:false} has been emitted
\* by them.
C16_OneOfflineForTwo ==
    \A p, q \in Procs :
        ( /\ p.kind = "disconnect" /\ q.kind = "disconnect"
          /\ p.user = q.user /\ p.user # None
          /\ p.peers = {q.conn} /\ q.peers = {}
          /\ p.pc # "awaitUser" /\ q.pc # "awaitUser" )
        => OfflineBy(events, p.user, p.conn)
             + OfflineBy(events, q.user, q.conn) = 1

\* C17 as claimed: the step that resumes the join handler of a socket that
\* has disconnected broadcasts no presence_update{U, isOnline:true} and
\* leaves the user store as it was.
C17_NoPresenceAfterDisconnect ==
    [][\A p \in Procs :
          ( /\ p.kind = "join" /\ p.pc = "awaitUser"
            /\ p.conn \notin sockets /\ Resumes(p) )
          => /\ OnlineBroadcasts(events', p.user)
                  = OnlineBroadcasts(events, p.user)
             /\ users' = users]_vars

\* the send_message handlers of socket c for docId d that are at one of
\* the pcs
SendsOf(c, d, pcs) ==
    LET P(q) == q.kind = "send" /\ q.conn = c /\ q.doc = d /\ q.pc \in pcs
    IN  CountWhere(procs, P)

NoClear == \A p \in Procs : p.kind # "clear"

\* C18 as claimed, its consequence: at the step that broadcasts the
\* new_message of a send_message, the docId is in the primary store.
C18_BroadcastOfStored ==
    [][\A p \in Procs :
          (p.kind = "send" /\ Ends(p, "awaitBridge")) => HasDoc(p.doc)]_vars

\* C18 as amended: the order of the steps of a send_message: only the
\* handlers that are past both writes to the primary store have broadcast
\* and acknowledged, each once; the legacy store holds a document only of a
\* handler that is past that, and no more pushes were sent than handlers
\* ended; and while no clear was requested every new_message is about a
\* docId in the primary store.
C18_PipelineOrder ==
    /\ \A p \in Procs :
          p.kind = "send"
          => /\ Broadcasts(events, p) = SendsAt(p, Accepted)
             /\ Acks(events, p) = SendsOf(p.conn, p.doc, Accepted)
    /\ \A k \in MirrorKeys :
          firestore[k].stored
          => \E q \in Procs :
                /\ q.kind = "send" /\ q.pc \in InNotify
                /\ k = <<RoomOr(q.room), q.doc>>
    /\ Pushes(events) <= CountWhere(procs, LAMBDA q : q.pc = "done")
    /\ NoClear
       => \A e \in DOMAIN events : e.type = "new_message" => HasDoc(e.doc)

\* a send_message waits for the legacy store, with its message stored,
\* broadcast and acknowledged
C18_Witness ==
    \E p \in Procs :
        /\ p.kind = "send" /\ p.pc = "awaitBridge"
        /\ HasDoc(p.doc)
        /\ Broadcasts(events, p) = 1 /\ Acks(events, p) = 1
        /\ ~firestore[<<RoomOr(p.room), p.doc>>].stored

\* the order sent -> delivered -> seen
Rank(st) == CASE st = "sent" -> 1 [] st = "delivered" -> 2 [] st = "seen" -> 3

StatusOf(d) == messages[FirstDoc(d)].status

\* C19 as claimed: no step lowers the status of a message that stays in
\* the primary store.
C19_StatusMonotonic ==
    [][\A d \in DocIds :
          (HasDoc(d) /\ HasDoc(d)')
          => Rank(StatusOf(d)') >= Rank(StatusOf(d))]_vars

\* C20 as claimed, its last part: an edited message keeps in originalText
\* the text it was sent with.
C20_OriginalKept ==
    \A p \in Procs :
        (p.kind = "send" /\ p.pc \in Accepted /\ HasDoc(p.doc))
        => LET m == messages[FirstDoc(p.doc)]
           IN  m.edited => m.originalText = p.text

\* the update_status handlers for the docId, status and room of p that are
\* at one of the pcs
StatusAt(p, pcs) ==
    LET P(q) == /\ q.kind = "update_status" /\ q.doc = p.doc
                /\ q.status = p.status /\ q.room = p.room /\ q.pc \in pcs
    IN  CountWhere(procs, P)

\* status_updated events for the request of p
StatusEvents(B, p) ==
    LET P(e) == /\ e.type = "status_updated" /\ e.doc = p.doc
                /\ e.status = p.status /\ e.to = RoomSockets(p.room)
    IN  CountWhere(B, P)

\* C21 - update_status: exactly the handlers whose update of the primary
\* store was answered have broadcast status_updated{docId, status}, each
\* once, whatever the legacy store did afterwards; a handler whose update
\* failed has broadcast nothing, and a handler ends either there or, after
\* the legacy store, without an error.
C21_StatusAfterPrimary ==
    \A p \in Procs :
        p.kind = "update_status"
        => /\ StatusEvents(events, p) = StatusAt(p, {"awaitMirror", "done"})
           /\ p.pc \in {"awaitUpdate", "failed", "awaitMirror", "done"}

\* an update_status has ended with the status in the primary store and
\* broadcast, and the legacy store without it
C21_Witness ==
    \E p \in Procs :
        /\ p.kind = "update_status" /\ p.pc = "done"
        /\ HasDoc(p.doc) /\ StatusOf(p.doc) = p.status
        /\ firestore[<<p.room, p.doc>>].status # p.status
        /\ StatusEvents(events, p) = 1

\* C22 - typing is volatile: a step that handles a typing event emits one
\* partner_typing{userId, isTyping} with the user bound to the sending
\* socket, to the sockets that are in the named room other than the
\* sending one, and changes nothing else: no store, no membership, no
\* bound user, no presence, no handler.
C22_TypingVolatile ==
    [][count'.other # count.other
       => /\ BagCardinality(Emitted) = 1
          /\ \A e \in DOMAIN Emitted :
                /\ e.type = "partner_typing"
                /\ e.user = userId[e.by]
                /\ e.to = {s \in sockets : e.room \in sids[s]} \ {e.by}
          /\ UNCHANGED <<netVars, users, msgVars, lastPresence, procs>>]_vars

\* a socket in a room with the other has typed and the other alone was
\* told
C22_Witness ==
    \E e \in DOMAIN events :
        /\ e.type = "partner_typing" /\ e.typing
        /\ e.to # {} /\ e.by \notin e.to
        /\ e.room \in sids[e.by]

\* C23 as claimed: while every join event received lacked its roomId, no
\* socket is in a room or bound to a user, no user record is stored and
\* nothing was emitted.
C23_InvalidJoinRejected ==
    (\A p \in Procs : p.kind = "join" => p.room = None)
    => /\ \A c \in Conns : sids[c] = {} /\ userId[c] = None
       /\ \A u \in Users : ~users[u].stored
       /\ events = EmptyBag

\* p is a send_message handler whose socket has disconnected
Gone(p) == p.kind = "send" /\ p.conn \in closed

\* the last stored message is what p submitted
StoredLast(p) ==
    /\ messages' # << >>
    /\ messages'[Len(messages')].docId = p.doc
    /\ messages'[Len(messages')].text = p.text

C25_RoomsOfLiveSockets ==
    [][/\ \A c \in Conns \ sockets : sids[c] = {}
       /\ \A r \in Rooms : RoomSockets(r) \subseteq sockets \ closed
       /\ \A c \in sockets \ sockets' :
             /\ sids'[c] = {}
             /\ \A r \in Rooms : c \notin RoomSockets(r)'
             /\ \E q \in BagToSet(procs') :
                   /\ procs' = Start(q)
                   /\ q.kind = "disconnect" /\ q.conn = c
                   /\ c \notin q.peers
                   /\ q.peers = {s \in sockets' : userId[s] = userId[c]}
                   /\ userId[c] # None
                      => (q.pc = "kept") = (q.peers # {})
      ]_vars

\* a socket that was in a room with another socket of its user has
\* disconnected; the other socket is still in the room
C25_Witness ==
    \E q \in Procs :
        /\ q.kind = "disconnect" /\ q.user # None /\ q.pc = "kept"
        /\ q.conn \in closed /\ sids[q.conn] = {}
        /\ \E s \in q.peers, r \in Rooms : s \in RoomSockets(r)

C27_FetchedOnce ==
    \A x \in DOMAIN downloads : downloads[x] <= 1

\* C28 - edits without effect: an edit request without docId or newText is
\* answered 400 at once, and one whose docId the primary store does not
\* hold when findOne is answered ends with 404; neither step changes a
\* store or emits an event, both handlers have ended, and every
\* message_edited event carries a stored docId and a text.
C28_EditWithoutEffect ==
    [][/\ \A p \in Procs :
             p.kind = "edit"
             => /\ (p.doc = None \/ p.text = None) => p.pc = "badRequest"
                /\ p.pc \in {"badRequest", "notFound"} => ~Resumes(p)
                /\ ( /\ p.pc = "awaitFind" /\ Resumes(p)
                     /\ ~HasDoc(p.doc) /\ ~Ends(p, "error") )
                   => Ends(p, "notFound") /\ UNCHANGED <<msgVars, events>>
       /\ \A q \in BagToSet(procs') :
             ( /\ q.kind = "edit" /\ q.pc \in {"badRequest", "notFound"}
               /\ CopiesIn(q, procs') > CopiesIn(q, procs) )
             => UNCHANGED <<msgVars, events>>
       /\ \A e \in DOMAIN events :
             e.type = "message_edited"
             => HasDoc(e.doc) /\ e.text # None
      ]_vars

\* an edit of m2, which was never sent, has ended with 404 and an edit
\* without newText with 400; the stores and the events are those of the
\* initial state
C28_Witness ==
    /\ \E p \in Procs : p.kind = "edit" /\ p.doc = "m2" /\ p.pc = "notFound"
    /\ \E q \in Procs : q.kind = "edit" /\ q.text = None /\ q.pc = "badRequest"
    /\ messages = << [Msg(Sent0) EXCEPT !.status = "delivered"] >>
    /\ firestore[<<"r1", "m1">>] = Mirror(Sent0)
    /\ \A e \in DOMAIN events : e.type # "message_edited"

\* C29 as claimed: whenever the latest presence_update about user U says
\* online and no connected socket is bound to U, eventually either U is
\* announced offline and stored as offline, or a socket is bound to U again.
C29_EventuallyOffline ==
    \A u \in Users :
        (lastPresence[u] = "online" /\ ~Bound(u))
        ~> \/ lastPresence[u] = "offline" /\ ~users[u].isOnline
           \/ Bound(u)

\* C30 as claimed, for partner_typing: an event delivered to sockets of room
\* R was caused by a socket that is in R at that step.
C30_EventsFromMembers ==
    [][\A e \in DOMAIN Emitted :
          (e.type = "partner_typing" /\ e.to # {})
          => e.room \in sids[e.by]]_vars

\* presence_update{v, isOnline:true} events that reached socket c
OnlineReceived(B, v, c) ==
    LET P(e) == /\ e.type = "presence_update" /\ e.user = v /\ e.online
                /\ c \in e.to
    IN  CountWhere(B, P)

\* the join events socket c has sent
JoinsOf(c) == CountWhere(procs, LAMBDA q : q.kind = "join" /\ q.conn = c)

\* C31 as claimed: at the step that completes the only join of a socket, the
\* socket has received at most one presence_update{V, isOnline:true} for
\* every user V other than its own.
C31_ReconciliationOnce ==
    [][\A p \in Procs :
          (p.kind = "join" /\ Ends(p, "done") /\ JoinsOf(p.conn) = 1)
          => \A v \in Users \ {p.user} :
                OnlineReceived(events', v, p.conn) <= 1]_vars

\* the rooms socket c has asked to join
JoinedBy(c) == {q.room : q \in {x \in Procs : x.kind = "join" /\ x.conn = c}}

\* C32 as claimed: a presence_update{U, isOnline:false} sent by the
\* disconnect handler of a socket reaches only sockets that are in a room
\* which that socket had joined.
C32_OfflineWithinRooms ==
    [][\A e \in DOMAIN Emitted :
          (e.type = "presence_update" /\ ~e.online)
          => \A s \in e.to : sids[s] \cap JoinedBy(e.by) # {}]_vars

=============================================================================
